---- MODULE Spec2Model ----
(***************************************************************************)
(* A model of the Facebook hashtag scraper: the content normalizer         *)
(* (content_cleaner.py), the round-robin proxy manager (proxy_manager.py)  *)
(* and the fetch / parse / paginate pipeline (facebook_parser.py).         *)
(*                                                                         *)
(* Python values are modelled as follows.  A str is a sequence of          *)
(* one-character strings; the characters the regular expressions tell      *)
(* apart and TLA+ cannot write (0x01, 0x0B) are written in caret notation  *)
(* ("^A", "^K") and still count as ONE character.  A value whose Python    *)
(* type varies (None / int / str / dict) is a record tagged with its type. *)
(***************************************************************************)
EXTENDS Integers, Sequences, FiniteSets, TLC

VARIABLES
    cc_in,          \* content normalizer: the text handed to clean_content
    cc_out,         \* content normalizer: the successive results, oldest first
    _proxies,       \* ProxyManager._proxies
    _cycle,         \* ProxyManager._cycle: None, or the cursor of itertools.cycle
    pm_calls,       \* number of get_next_proxy calls made so far
    pm_ret,         \* what the last get_next_proxy call returned
    ua_calls,       \* number of get_user_agent calls made so far
    max_pages,      \* FacebookHashtagScraper.max_pages
    settings,       \* FacebookHashtagScraper.settings
    pc,             \* where run is: start, get, backoff, pace, done
    page,           \* run: the loop variable
    attempt,        \* _fetch_page: the loop variable
    request_kwargs, \* _fetch_page: the headers and proxies of the call
    all_posts,      \* run: the accumulated posts
    last_candidates,\* _parse_page: the candidate nodes of the last page parsed
    fetch_calls,    \* history: the pages _fetch_page was called for, in order
    fetch_rets,     \* history: what each finished _fetch_page call returned
    get_log,        \* history: the GETs of the current _fetch_page call
    sleep_log,      \* history: the backoff sleeps of the current _fetch_page call
    gets_total      \* history: the number of GETs of the whole run

cleanVars == <<cc_in, cc_out>>

pmVars == <<_proxies, _cycle, pm_calls, pm_ret>>

runVars == <<ua_calls, max_pages, settings, pc, page, attempt, request_kwargs,
             all_posts, last_candidates, fetch_calls, fetch_rets, get_log, sleep_log,
             gets_total>>

vars == <<cleanVars, pmVars, runVars>>

(***************************************************************************)
(* Python values                                                           *)
(***************************************************************************)
None == [type |-> "NoneType"]

PyStr(s) == [type |-> "str", val |-> s]

PyInt(n) == [type |-> "int", val |-> n]

\* All the lists over A of length at most n.
RECURSIVE ListsUpTo(_, _)
ListsUpTo(A, n) ==
    IF n = 0 THEN {<<>>}
    ELSE LET S == ListsUpTo(A, n - 1)
         IN  S \cup {Append(s, c) : s \in {t \in S : Len(t) = n - 1}, c \in A}

\* The characters of CONTROL_CHARS_RE, [\x00-\x08\x0b-\x0c\x0e-\x1f], that the
\* model writes: 0x01, 0x0B (vertical tab), 0x0C (form feed).
ControlChars == {"^A", "^K", "\f"}

\* The characters \s matches, among those the model writes.
WhitespaceChars == {" ", "\t", "\n", "\r", "\f", "^K"}

Digits == {"0", "1", "2", "3", "4", "5", "6", "7", "8", "9"}

DigitVal(c) ==
    CASE c = "0" -> 0 [] c = "1" -> 1 [] c = "2" -> 2 [] c = "3" -> 3
      [] c = "4" -> 4 [] c = "5" -> 5 [] c = "6" -> 6 [] c = "7" -> 7
      [] c = "8" -> 8 [] c = "9" -> 9

\* str.lower(), on the upper-case letters the model writes.
LowerChar(c) ==
    CASE c = "K" -> "k" [] c = "M" -> "m" [] c = "L" -> "l" [] c = "V" -> "v"
      [] OTHER -> c

lower(s) == [i \in 1..Len(s) |-> LowerChar(s[i])]

RECURSIVE lstrip(_)
lstrip(s) ==
    IF s # <<>> /\ Head(s) \in WhitespaceChars THEN lstrip(Tail(s)) ELSE s

RECURSIVE rstrip(_)
rstrip(s) ==
    IF s # <<>> /\ s[Len(s)] \in WhitespaceChars
    THEN rstrip(SubSeq(s, 1, Len(s) - 1))
    ELSE s

\* str.strip()
strip(s) == rstrip(lstrip(s))

(***************************************************************************)
(* content_cleaner.py                                                      *)
(***************************************************************************)
max_len == 10000

\* CONTROL_CHARS_RE.sub("", text)
RemoveControlChars(s) == SelectSeq(s, LAMBDA c : c \notin ControlChars)

\* WHITESPACE_RE.sub(" ", text): every maximal run of whitespace becomes one
\* space.  The characters kept are those that are not whitespace and the
\* first character of each run.
CollapseWhitespace(s) ==
    LET idx == SelectSeq([i \in 1..Len(s) |-> i],
                         LAMBDA i : \/ s[i] \notin WhitespaceChars
                                    \/ i = 1
                                    \/ s[i - 1] \notin WhitespaceChars)
    IN  [k \in 1..Len(idx) |->
            IF s[idx[k]] \in WhitespaceChars THEN " " ELSE s[idx[k]]]

\* text[:n]
Truncate(s, n) == IF Len(s) > n THEN SubSeq(s, 1, n) ELSE s

clean_content(text) ==
    IF text = None
    THEN <<>>
    ELSE LET stripped == strip(CollapseWhitespace(RemoveControlChars(text.val)))
         IN  Truncate(stripped, max_len)

RECURSIVE DigitsValue(_)
DigitsValue(ds) ==
    IF ds = <<>> THEN 0
    ELSE 10 * DigitsValue(SubSeq(ds, 1, Len(ds) - 1)) + DigitVal(ds[Len(ds)])

RECURSIVE Pow10(_)
Pow10(d) == IF d = 0 THEN 1 ELSE 10 * Pow10(d - 1)

\* int(num * multiplier) for the text `cleaned` of digits and dots; the
\* ValueError of float() (no digit, or more than one dot) gives 0.  The product
\* is computed in exact decimal arithmetic: for some texts the binary64
\* product of Python is just below the exact one and truncates to one less
\* (the result is never negative either way); the texts of the documents
\* below ("1.2K", "3,456", ...) are not among them.
ParseNumber(cleaned, multiplier) ==
    LET dots == SelectSeq(cleaned, LAMBDA c : c = ".")
        digs == SelectSeq(cleaned, LAMBDA c : c # ".")
    IN  IF dots = <<>>
        THEN DigitsValue(cleaned) * multiplier
        ELSE IF Len(dots) > 1 \/ digs = <<>>
        THEN 0
        ELSE LET p == CHOOSE i \in 1..Len(cleaned) : cleaned[i] = "."
                 d == Len(cleaned) - p
             IN  (DigitsValue(digs) * multiplier) \div Pow10(d)

safe_int(value) ==
    IF value = None THEN 0
    ELSE IF value.type = "int" THEN value.val
    ELSE LET s0 == lower(strip(value.val))
             last == IF s0 = <<>> THEN "" ELSE s0[Len(s0)]
             multiplier == IF last = "k" THEN 1000
                           ELSE IF last = "m" THEN 1000000 ELSE 1
             s == IF last \in {"k", "m"} THEN SubSeq(s0, 1, Len(s0) - 1) ELSE s0
             cleaned == SelectSeq(s, LAMBDA c : c \in Digits \cup {"."})
         IN  IF s0 = <<>> \/ cleaned = <<>>
             THEN 0
             ELSE ParseNumber(cleaned, multiplier)

\* `x or 0`
OrZero(x) == IF x = None \/ x = PyInt(0) THEN 0 ELSE x.val

\* The views are left out of the sum.
compute_total_engagement_no_views(like_count, comment_count, share_count, video_views_count) ==
    LET total == OrZero(like_count) + OrZero(comment_count) + OrZero(share_count)
    IN  IF total < 0 THEN 0 ELSE total

compute_total_engagement(like_count, comment_count, share_count, video_views_count) ==
    LET total == OrZero(like_count) + OrZero(comment_count)
                 + OrZero(share_count) + OrZero(video_views_count)
    IN  IF total < 0 THEN 0 ELSE total

(***************************************************************************)
(* proxy_manager.py                                                        *)
(***************************************************************************)
\* A proxy given as a URL string, and one given as a requests proxies dict.
ProxyStr(u) == [type |-> "str", url |-> u]

ProxyDict(h, s) == [type |-> "dict", http |-> h, https |-> s]

\* itertools.cycle(items): the items and the position of the next one.
cycle(items) == [type |-> "cycle", items |-> items, pos |-> 0]

\* The item next(c) returns.
CycleValue(c) == c.items[c.pos + 1]

\* The cursor stops on the last item instead of wrapping.
CycleAdvanceNoWrap(c) ==
    [c EXCEPT !.pos = IF c.pos + 1 < Len(c.items) THEN c.pos + 1 ELSE c.pos]

\* The iterator after next(c): past the last item it starts over.
CycleAdvance(c) == [c EXCEPT !.pos = (c.pos + 1) % Len(c.items)]

\* ProxyManager.__init__: the value of self._cycle for a proxy list.
ProxyManagerCycle(proxy_list) ==
    IF proxy_list # <<>> THEN cycle(proxy_list) ELSE None

\* ProxyManager.get_next_proxy: the value returned in the current state.
get_next_proxy ==
    IF _cycle = None
    THEN None
    ELSE LET proxy == CycleValue(_cycle)
         IN  IF proxy.type = "str"
             THEN ProxyDict(proxy.url, proxy.url)
             ELSE proxy

\* ProxyManager.get_next_proxy: its effect on the manager.
GetNextProxyEffect ==
    /\ pm_ret' = get_next_proxy
    /\ _cycle' = IF _cycle = None THEN None ELSE CycleAdvance(_cycle)
    /\ pm_calls' = pm_calls + 1
    /\ UNCHANGED _proxies

(***************************************************************************)
(* Strings and the parsed document (BeautifulSoup) as facebook_parser.py   *)
(* uses them                                                               *)
(***************************************************************************)
\* The str of a literal: its characters.
Str(lit) == [i \in 1..Len(lit) |-> SubSeq(lit, i, i)]

Min(a, b) == IF a < b THEN a ELSE b

Max(a, b) == IF a > b THEN a ELSE b

\* s[a:b], for 0 <= a
Slice(s, a, b) == SubSeq(s, a + 1, Min(b, Len(s)))

\* s.find(sub): the 0-based index of the first occurrence, or -1
Find(s, sub) ==
    LET at == {i \in 1..(Len(s) - Len(sub) + 1) : SubSeq(s, i, i + Len(sub) - 1) = sub}
    IN  IF at = {} THEN -1 ELSE (CHOOSE i \in at : \A j \in at : i <= j) - 1

\* sub in s
Contains(s, sub) == Find(s, sub) # -1

\* s.split(): the maximal runs of non-whitespace characters
RECURSIVE Split(_)
Split(s) ==
    LET t == lstrip(s)
    IN  IF t = <<>> THEN <<>>
        ELSE LET ws == {i \in 1..Len(t) : t[i] \in WhitespaceChars}
                 n  == IF ws = {} THEN Len(t)
                       ELSE (CHOOSE i \in ws : \A j \in ws : i <= j) - 1
             IN  <<SubSeq(t, 1, n)>> \o Split(SubSeq(t, n + 1, Len(t)))

\* sep.join(parts)
RECURSIVE Join(_, _)
Join(parts, sep) ==
    IF parts = <<>> THEN <<>>
    ELSE IF Len(parts) = 1 THEN parts[1]
    ELSE parts[1] \o sep \o Join(Tail(parts), sep)

\* A text node and an element of the parsed document.  attrs is the set of
\* <<name, value>> pairs of the element (one pair per class of a class
\* attribute); children are its text nodes and elements in document order.
TextNode(lit) == [kind |-> "text", s |-> lit]

Tag(name, attrs, children) ==
    [kind |-> "tag", name |-> name, attrs |-> attrs, children |-> children]

HasAttr(node, a) == \E p \in node.attrs : p[1] = a

\* node[a], node.get(a)
Attr(node, a) == (CHOOSE p \in node.attrs : p[1] = a)[2]

\* The elements below a list of children, in document order.
RECURSIVE Descendants(_)
Descendants(children) ==
    IF children = <<>> THEN <<>>
    ELSE LET c == Head(children)
         IN  (IF c.kind = "tag" THEN <<c>> \o Descendants(c.children) ELSE <<>>)
             \o Descendants(Tail(children))

\* The strings below a list of children, in document order.
RECURSIVE Strings(_)
Strings(children) ==
    IF children = <<>> THEN <<>>
    ELSE LET c == Head(children)
         IN  (IF c.kind = "tag" THEN Strings(c.children) ELSE <<Str(c.s)>>)
             \o Strings(Tail(children))

\* node.get_text(sep, strip=True): every string stripped, the empty ones
\* dropped, the rest joined by sep.
get_text(node, sep) ==
    LET all == Strings(node.children)
        stripped == [i \in 1..Len(all) |-> strip(all[i])]
    IN  Join(SelectSeq(stripped, LAMBDA t : t # <<>>), sep)

\* The first element of a list, or None: what find() gives for find_all()'s list.
First(found) == IF found = <<>> THEN None ELSE found[1]

(***************************************************************************)
(* facebook_parser.py: the post extractor                                  *)
(***************************************************************************)
\* time.strftime("%Y-%m-%d %H:%M:%S", time.localtime(ts)): the calendar
\* arithmetic is left uninterpreted; the value records the format applied
\* and the timestamp.
FormatLocalTime(ts) == Str("%Y-%m-%d %H:%M:%S@") \o ts

_extract_date(node) ==
    LET below == Descendants(node.children)
        time_tag == First(SelectSeq(below, LAMBDA e : e.name = "abbr"))
        utime_ok == /\ time_tag # None
                    /\ HasAttr(time_tag, "data-utime")
                    /\ Attr(time_tag, "data-utime") # ""
                    /\ \A i \in 1..Len(Attr(time_tag, "data-utime")) :
                           Str(Attr(time_tag, "data-utime"))[i] \in Digits
        FromTag(tag_name) ==
            LET t == First(SelectSeq(below, LAMBDA e : e.name = tag_name))
            IN  IF t # None /\ HasAttr(t, "title") /\ Attr(t, "title") # ""
                THEN Str(Attr(t, "title"))
                ELSE IF t # None THEN get_text(t, <<>>) ELSE <<>>
    IN  IF utime_ok THEN FormatLocalTime(Str(Attr(time_tag, "data-utime")))
        ELSE IF FromTag("time") # <<>> THEN FromTag("time")
        ELSE FromTag("abbr")

_detect_media_type(node) ==
    LET below == Descendants(node.children)
    IN  IF \E i \in 1..Len(below) : below[i].name = "video" THEN "video"
        ELSE IF \E i \in 1..Len(below) : below[i].name = "img" THEN "photo"
        ELSE "text"

\* The largest safe_int of the tokens of a window, and v if none is larger.
RECURSIVE MaxToken(_, _)
MaxToken(tokens, v) ==
    IF tokens = <<>> THEN v
    ELSE MaxToken(Tail(tokens), Max(v, safe_int(PyStr(Head(tokens)))))

RECURSIVE ScanKeywords(_, _, _)
ScanKeywords(text, keywords, candidate_value) ==
    IF keywords = <<>> THEN candidate_value
    ELSE LET idx == Find(text, Head(keywords))
             window == Slice(text, Max(0, idx - 10), idx + 20)
         IN  ScanKeywords(text, Tail(keywords),
                          IF idx = -1 THEN candidate_value
                          ELSE MaxToken(Split(window), candidate_value))

_extract_stat(node, keywords) ==
    ScanKeywords(lower(get_text(node, <<" ">>)), keywords, 0)

\* The texts of the content blocks: the div elements of class cls, for each
\* cls in turn, whose text is not empty.
ContentBlocks(node, classes) ==
    LET below == Descendants(node.children)
        Of(cls) ==
            LET divs == SelectSeq(below, LAMBDA e : e.name = "div" /\ <<"class", cls>> \in e.attrs)
                texts == [i \in 1..Len(divs) |-> get_text(divs[i], <<" ">>)]
            IN  SelectSeq(texts, LAMBDA t : t # <<>>)
    IN  Of(classes[1]) \o Of(classes[2])

\* The keywords of the like, comment, share and view counters.
StatKeywords ==
    << <<Str("like"), Str("reaction")>>, <<Str("comment")>>, <<Str("share")>>,
       <<Str("view")>> >>

\* The permalink of a candidate: from the first <a> below it that has an href.
Permalink(node) ==
    LET link == First(SelectSeq(Descendants(node.children),
                                LAMBDA e : e.name = "a" /\ HasAttr(e, "href")))
    IN  IF link = None THEN <<>>
        ELSE IF Contains(Str(Attr(link, "href")), Str("facebook.com"))
        THEN Str(Attr(link, "href"))
        ELSE Str("https://www.facebook.com") \o Str(Attr(link, "href"))

\* content_blocks, given the texts of the class-marked blocks and the text of
\* the node: the node's text stands in when no block matched.
OrNodeText(blocks, text) ==
    IF blocks # <<>> THEN blocks
    ELSE IF text # <<>> THEN <<text>> ELSE <<>>

\* The content of a candidate.
Content(node) ==
    clean_content(PyStr(Join(
        OrNodeText(ContentBlocks(node, <<"userContent", "ecm0bbzt">>),
                   get_text(node, <<" ">>)),
        <<" ">>)))

\* like_count, comment_count, share_count, video_views_count: each is
\* safe_int(self._extract_stat(node, keywords)).
Counts(node) ==
    [k \in 1..4 |-> safe_int(PyInt(_extract_stat(node, StatKeywords[k])))]

\* The record of a candidate, or None for one with no content and no permalink.
BuildPost(node, permalink, content, counts) ==
    IF content = <<>> /\ permalink = <<>>
    THEN None
    ELSE [ type |-> "FacebookPost",
           permalink |-> permalink,
           content |-> content,
           media_type |-> _detect_media_type(node),
           like_count |-> counts[1],
           comment_count |-> counts[2],
           share_count |-> counts[3],
           total_engagement |->
               compute_total_engagement(PyInt(counts[1]), PyInt(counts[2]),
                                        PyInt(counts[3]), PyInt(counts[4])),
           video_views_count |-> counts[4],
           date |-> _extract_date(node) ]

_parse_single_post(node) ==
    BuildPost(node, Permalink(node), Content(node), Counts(node))

\* The candidate nodes of a parsed document.
Candidates(soup) ==
    LET all == Descendants(soup)
        first == SelectSeq(all, LAMBDA e : /\ e.name \in {"article", "div"}
                                           /\ <<"role", "article">> \in e.attrs)
    IN  IF first # <<>> THEN first
        ELSE SelectSeq(all, LAMBDA e : e.name = "div" /\ HasAttr(e, "data-ft"))

_parse_page(html) ==
    LET candidates == Candidates(html.val)
        parsed == [i \in 1..Len(candidates) |-> _parse_single_post(candidates[i])]
    IN  SelectSeq(parsed, LAMBDA post : post # None)

\* The scraper before any run, with its defaults.
RunIdle ==
    /\ ua_calls = 0
    /\ max_pages = 0
    /\ settings = [max_retries |-> 3, backoff_factor |-> 15,
                   sleep_between_requests |-> 15]
    /\ pc = "start"
    /\ page = 0
    /\ attempt = 0
    /\ request_kwargs = None
    /\ all_posts = <<>>
    /\ last_candidates = <<>>
    /\ fetch_calls = <<>>
    /\ fetch_rets = <<>>
    /\ get_log = <<>>
    /\ sleep_log = <<>>
    /\ gets_total = 0

(***************************************************************************)
(* facebook_parser.py: the page fetcher and the pagination controller      *)
(***************************************************************************)
\* The range one too long: range(1, n + 2).
InRangeOffByOne(i, n) == 1 <= i /\ i <= n + 1

\* i in range(1, n + 1)
InRange(i, n) == 1 <= i /\ i <= n

\* `not html`
NotHtml(html) == html = None \/ html.val = <<>>

\* The user-agent rotator is a collaborator of the scraper: a round robin
\* over a fixed list.
UserAgents == <<"Mozilla/5.0 (X11)", "Mozilla/5.0 (Macintosh)">>

get_user_agent == UserAgents[(ua_calls % Len(UserAgents)) + 1]

\* What session.get gives: a response, or a requests.RequestException.
Response(status_code, text) ==
    [kind |-> "response", status_code |-> status_code, text |-> text]

RequestException == [kind |-> "RequestException"]

\* The retry loop one attempt short.
AttemptOutcomeShort(resp, n, max_retries) ==
    IF resp.kind = "response" /\ resp.status_code = 200 THEN "return"
    ELSE IF n + 1 < max_retries THEN "retry"
    ELSE "give_up"

\* One pass of the retry loop of _fetch_page after session.get gave resp:
\* "return" the body, "retry" after a sleep, or leave the loop ("give_up").
AttemptOutcome(resp, n, max_retries) ==
    IF resp.kind = "response" /\ resp.status_code = 200 THEN "return"
    ELSE IF n < max_retries THEN "retry"
    ELSE "give_up"

\* A backoff that does not grow with the attempt.
SleepTimeConstant(backoff_factor, n) == backoff_factor

\* sleep_time = backoff_factor * attempt
SleepTime(backoff_factor, n) == backoff_factor * n

\* The loop without its first break: a page without HTML is skipped.
PageResultIgnoreNoHtml(html, page_posts) ==
    [ brk |-> ~NotHtml(html) /\ page_posts = <<>>,
      page_posts |-> IF NotHtml(html) THEN <<>> ELSE page_posts ]

\* The loop without its second break: a page without posts is skipped.
PageResultIgnoreEmpty(html, page_posts) ==
    [ brk |-> NotHtml(html),
      page_posts |-> IF NotHtml(html) THEN <<>> ELSE page_posts ]

\* The body of the loop of run once _fetch_page returned html and the page
\* gave page_posts: whether the loop breaks, and the posts of the page.
PageResult(html, page_posts) ==
    [ brk |-> NotHtml(html) \/ page_posts = <<>>,
      page_posts |-> IF NotHtml(html) THEN <<>> ELSE page_posts ]

\* `if not html: break`, else page_posts = self._parse_page(html)
RunPage(html) ==
    PageResult(html, IF NotHtml(html) THEN <<>> ELSE _parse_page(html))

\* run from the return of _fetch_page to the sleep that ends the iteration,
\* or to the return of run.
Proceed(html, r) ==
    /\ fetch_rets' = Append(fetch_rets, html)
    /\ last_candidates' = IF NotHtml(html) THEN last_candidates
                          ELSE Candidates(html.val)
    /\ all_posts' = IF r.brk THEN all_posts ELSE all_posts \o r.page_posts
    /\ pc' = IF r.brk THEN "done" ELSE "pace"

Continue(html) == Proceed(html, RunPage(html))

\* run at the head of its loop for page p, up to the first GET of the page.
LoopHead(p) ==
    IF ~InRange(p, max_pages)
    THEN /\ pc' = "done"
         /\ UNCHANGED <<pmVars, ua_calls, page, attempt, request_kwargs, all_posts,
                        last_candidates, fetch_calls, fetch_rets, get_log,
                        sleep_log, gets_total>>
    ELSE /\ page' = p
         /\ fetch_calls' = Append(fetch_calls, p)
         /\ ua_calls' = ua_calls + 1
         /\ GetNextProxyEffect
         /\ request_kwargs' = [headers |-> get_user_agent, proxies |-> get_next_proxy]
         /\ get_log' = <<>>
         /\ sleep_log' = <<>>
         /\ UNCHANGED gets_total
         /\ IF InRange(1, settings.max_retries)
            THEN /\ attempt' = 1
                 /\ pc' = "get"
                 /\ UNCHANGED <<all_posts, last_candidates, fetch_rets>>
            ELSE /\ UNCHANGED attempt
                 /\ Continue(None)

(***************************************************************************)
(* The content normalizer on its own: clean_content applied to an input,   *)
(* then to its own result.                                                 *)
(***************************************************************************)
MaxShort == 3
MaxOver == 2

CleanAlphabet == {"a", " ", "\t", "^A"}

\* n copies of the letter "a"
Pad(n) == [i \in 1..n |-> "a"]

\* Short texts, and texts around the length cap: a run of letters that ends
\* within MaxOver characters of the cap, followed by a short text.
CleanInputs ==
    LET short == ListsUpTo(CleanAlphabet, MaxShort)
    IN  short \cup {Pad(max_len - j) \o t : j \in 0..MaxOver, t \in short}

CleanInit ==
    /\ cc_in \in {PyStr(x) : x \in CleanInputs} \cup {None}
    /\ cc_out = <<>>
    /\ _proxies = <<>>
    /\ _cycle = None
    /\ pm_calls = 0
    /\ pm_ret = None
    /\ RunIdle

\* text = clean_content(x), then clean_content(text)
CleanStep ==
    /\ Len(cc_out) < 2
    /\ cc_out' = Append(cc_out,
                        clean_content(IF cc_out = <<>> THEN cc_in
                                      ELSE PyStr(cc_out[Len(cc_out)])))
    /\ UNCHANGED <<cc_in, pmVars, runVars>>

CleanNext == CleanStep

SpecClean == CleanInit /\ [][CleanNext]_vars

(***************************************************************************)
(* The proxy manager on its own: a manager built from a list, then any     *)
(* number of get_next_proxy calls.                                         *)
(***************************************************************************)
MaxProxies == 3
MaxCalls == 7

ProxyPool ==
    { ProxyStr("http://host1:8080"),
      ProxyStr("http://host2:8080"),
      ProxyDict("http://host3:8080", "https://host3:8443") }

ProxyInit ==
    /\ _proxies \in ListsUpTo(ProxyPool, MaxProxies)
    /\ _cycle = ProxyManagerCycle(_proxies)
    /\ pm_calls = 0
    /\ pm_ret = None
    /\ cc_in = None
    /\ cc_out = <<>>
    /\ RunIdle

ProxyCall ==
    /\ pm_calls < MaxCalls
    /\ GetNextProxyEffect
    /\ UNCHANGED <<cleanVars, runVars>>

ProxyNext == ProxyCall

SpecProxy == ProxyInit /\ [][ProxyNext]_vars

\* C5: for a manager built from a non-empty list of n proxies, the i-th call
\* to get_next_proxy returned the configuration of list element (i-1) mod n:
\* the element itself when it is a dict, the http/https pair of the URL when
\* it is a string.
C5_RoundRobin ==
    (pm_calls >= 1 /\ _proxies # <<>>) =>
        LET e == _proxies[((pm_calls - 1) % Len(_proxies)) + 1]
        IN  /\ e.type = "dict" => pm_ret = e
            /\ e.type = "str" =>
                   pm_ret = [type |-> "dict", http |-> e.url, https |-> e.url]

\* A manager of three proxies, of both kinds, whose cursor has wrapped twice.
C5_Witness ==
    /\ Len(_proxies) = 3
    /\ pm_calls = 7
    /\ \E i, j \in 1..3 : _proxies[i].type = "str" /\ _proxies[j].type = "dict"
    /\ pm_ret # None

(***************************************************************************)
(* The scraper: one run over an unreliable transport.                      *)
(***************************************************************************)
MaxPages == 3
MaxRetries == 3

\* Durations are in tenths of a second: 15 is the default backoff_factor and
\* the default sleep_between_requests, 1.5 s.
BackoffFactors == {15}

RunProxyLists ==
    { <<>>,
      <<ProxyStr("http://host1:8080"),
        ProxyDict("http://host3:8080", "https://host3:8443")>> }

Article == {<<"role", "article">>}

\* A role=article div with a userContent block, an image, counters and a
\* relative link; a role=article article with a video; an article without a
\* role; a span with role=article; a role=article div with nothing in it.
DocMixed ==
    << Tag("div", Article,
           << Tag("div", {<<"class", "userContent">>}, <<TextNode("Hello  world")>>),
              Tag("img", {<<"src", "/i.png">>}, <<>>),
              Tag("span", {}, <<TextNode("5 Likes")>>),
              Tag("span", {}, <<TextNode("1.2K views")>>),
              Tag("a", {<<"href", "/posts/1">>}, <<TextNode("link")>>) >>),
       Tag("article", Article,
           << Tag("a", {<<"href", "https://www.facebook.com/p/2">>},
                  <<TextNode("3 comments 2 shares")>>),
              Tag("video", {}, <<>>) >>),
       Tag("article", {}, <<Tag("a", {<<"href", "/p/3">>}, <<TextNode("plain")>>)>>),
       Tag("span", Article, <<TextNode("span 9 likes")>>),
       Tag("div", Article, <<TextNode("  ")>>) >>

\* No role=article element: two div elements and a span with data-ft.
DocDataFt ==
    << Tag("div", {<<"data-ft", "">>}, <<TextNode("7 likes")>>),
       Tag("span", {<<"data-ft", "x">>}, <<TextNode("span")>>),
       Tag("div", {<<"data-ft", "{top:1}">>},
           << Tag("abbr", {<<"data-utime", "1700000000">>}, <<TextNode("Nov 14")>>),
              TextNode(" 10 Views 3,456 reactions") >>) >>

\* A page whose only candidate is too weak to be a post.
DocNoPosts ==
    << Tag("p", {}, <<TextNode("No posts")>>),
       Tag("div", Article, <<TextNode("  ")>>) >>

\* The bodies the transport may answer with; <<>> is the empty body.
Bodies == {<<>>, DocMixed, DocDataFt, DocNoPosts}

Responses ==
    {Response(200, b) : b \in Bodies} \cup {Response(503, <<>>), RequestException}

Init ==
    /\ cc_in = None
    /\ cc_out = <<>>
    /\ _proxies \in RunProxyLists
    /\ _cycle = ProxyManagerCycle(_proxies)
    /\ pm_calls = 0
    /\ pm_ret = None
    /\ ua_calls = 0
    /\ max_pages \in 0..MaxPages
    /\ settings \in [max_retries : 0..MaxRetries,
                     backoff_factor : BackoffFactors,
                     sleep_between_requests : {15}]
    /\ pc = "start"
    /\ page = 0
    /\ attempt = 0
    /\ request_kwargs = None
    /\ all_posts = <<>>
    /\ last_candidates = <<>>
    /\ fetch_calls = <<>>
    /\ fetch_rets = <<>>
    /\ get_log = <<>>
    /\ sleep_log = <<>>
    /\ gets_total = 0

\* run is called.
Run ==
    /\ pc = "start"
    /\ LoopHead(1)
    /\ UNCHANGED <<cleanVars, max_pages, settings>>

\* session.get returns resp or raises, and _fetch_page and run go on to the
\* next sleep or to the end of the run.
Get(resp) ==
    /\ pc = "get"
    /\ get_log' = Append(get_log, [attempt |-> attempt,
                                   headers |-> request_kwargs.headers,
                                   proxies |-> request_kwargs.proxies,
                                   ua_calls |-> ua_calls,
                                   pm_calls |-> pm_calls,
                                   resp |-> resp])
    /\ gets_total' = gets_total + 1
    /\ IF AttemptOutcome(resp, attempt, settings.max_retries) = "retry"
       THEN /\ sleep_log' = Append(sleep_log,
                    [after |-> attempt,
                     secs |-> SleepTime(settings.backoff_factor, attempt)])
            /\ pc' = "backoff"
            /\ UNCHANGED <<all_posts, last_candidates, fetch_rets>>
       ELSE /\ Continue(IF AttemptOutcome(resp, attempt, settings.max_retries) = "return"
                        THEN PyStr(resp.text)
                        ELSE None)
            /\ UNCHANGED sleep_log
    /\ UNCHANGED <<cleanVars, pmVars, ua_calls, max_pages, settings, page, attempt,
                   request_kwargs, fetch_calls>>

\* The backoff sleep ends: the next attempt.
BackoffWake ==
    /\ pc = "backoff"
    /\ attempt' = attempt + 1
    /\ pc' = "get"
    /\ UNCHANGED <<cleanVars, pmVars, ua_calls, max_pages, settings, page,
                   request_kwargs, all_posts, last_candidates, fetch_calls,
                   fetch_rets, get_log, sleep_log, gets_total>>

\* The sleep between requests ends: the next page.
PaceWake ==
    /\ pc = "pace"
    /\ LoopHead(page + 1)
    /\ UNCHANGED <<cleanVars, max_pages, settings>>

Next ==
    \/ Run
    \/ \E resp \in Responses : Get(resp)
    \/ BackoffWake
    \/ PaceWake

Spec == Init /\ [][Next]_vars

\* The scraper has one thread of control, every GET ends (by its timeout at
\* the latest) and every sleep ends: a step that can be taken is taken.
FairSpec == Spec /\ WF_vars(Next)

(***************************************************************************)
(* The claims                                                              *)
(***************************************************************************)
\* The posts _parse_page gives for each body the transport may answer with.
PostsOfBody == [b \in Bodies |-> _parse_page(PyStr(b))]

\* The posts of the first n pages fetched, in page order.
RECURSIVE PostsOfPages(_, _)
PostsOfPages(rets, n) ==
    IF n = 0 THEN <<>>
    ELSE PostsOfPages(rets, n - 1) \o PostsOfBody[rets[n].val]

\* Whether _fetch_page returned HTML that yields at least one post.
YieldsPosts(html) == ~NotHtml(html) /\ PostsOfBody[html.val] # <<>>

\* Whether session.get gave a response of status 200.
Is200(resp) == resp.kind = "response" /\ resp.status_code = 200

\* Whether the current _fetch_page call has returned.
CallReturned == Len(fetch_rets) = Len(fetch_calls)

\* C1: if _fetch_page returned HTML yielding at least one post for pages
\* 1..k-1 and no HTML for page k, the run is over with exactly the posts of
\* pages 1..k-1 in page order, and _fetch_page was called for pages 1..k only.
C1_StopOnNoHtml ==
    \A k \in 1..Len(fetch_rets) :
        (NotHtml(fetch_rets[k]) /\ \A j \in 1..(k - 1) : YieldsPosts(fetch_rets[j])) =>
            /\ pc = "done"
            /\ fetch_calls = [i \in 1..k |-> i]
            /\ all_posts = PostsOfPages(fetch_rets, k - 1)

\* Pages 1 and 2 gave posts, page 3 gave no HTML although retries were left
\* for more, and the run is over.
C1_Witness ==
    /\ pc = "done"
    /\ max_pages = 3
    /\ Len(fetch_rets) = 2
    /\ YieldsPosts(fetch_rets[1])
    /\ fetch_rets[2] = None
    /\ all_posts # <<>>

\* C2: if the page fetched for page k yields zero posts, the run is over,
\* _fetch_page was called for pages 1..k only, and the result is exactly the
\* posts of pages 1..k-1 (the empty sequence for k = 1).
C2_StopOnEmptyPage ==
    \A k \in 1..Len(fetch_rets) :
        (~NotHtml(fetch_rets[k]) /\ PostsOfBody[fetch_rets[k].val] = <<>>) =>
            /\ pc = "done"
            /\ fetch_calls = [i \in 1..k |-> i]
            /\ Len(fetch_rets) = k
            /\ all_posts = PostsOfPages(fetch_rets, k - 1)
            /\ k = 1 => all_posts = <<>>

\* Page 1 gave posts, page 2 gave HTML without any post, with a page left.
C2_Witness ==
    /\ pc = "done"
    /\ max_pages = 3
    /\ Len(fetch_rets) = 2
    /\ YieldsPosts(fetch_rets[1])
    /\ ~NotHtml(fetch_rets[2])
    /\ PostsOfBody[fetch_rets[2].val] = <<>>
    /\ all_posts # <<>>

\* C3: every GET of one _fetch_page call has its own user-agent and its own
\* proxy: from one attempt to the next each rotator has advanced once, and
\* with two different proxies configured the two attempts use different ones.
C3_PerAttemptRotation ==
    \A i \in 2..Len(get_log) :
        /\ get_log[i].ua_calls = get_log[i - 1].ua_calls + 1
        /\ get_log[i].pm_calls = get_log[i - 1].pm_calls + 1
        /\ Len(_proxies) >= 2 => get_log[i].proxies # get_log[i - 1].proxies

\* C4: one _fetch_page call issues at most max_retries GETs, numbered from 1;
\* no GET follows a 200; the call returns the body of the GET that gave 200,
\* and otherwise returns None, and then after exactly max_retries GETs that
\* all failed (another status, or a transport error).
C4_FetchPage ==
    /\ Len(get_log) <= settings.max_retries
    /\ \A i \in 1..Len(get_log) : get_log[i].attempt = i
    /\ \A i \in 1..(Len(get_log) - 1) : ~Is200(get_log[i].resp)
    /\ (pc = "get" /\ get_log # <<>>) => ~Is200(get_log[Len(get_log)].resp)
    /\ (CallReturned /\ fetch_rets # <<>>) =>
           LET ret == fetch_rets[Len(fetch_rets)]
           IN  IF get_log # <<>> /\ Is200(get_log[Len(get_log)].resp)
               THEN ret = [type |-> "str", val |-> get_log[Len(get_log)].resp.text]
               ELSE ret = None /\ Len(get_log) = settings.max_retries

\* A call that returned None after three GETs: a 503 and a transport error
\* among them.
C4_Witness ==
    /\ CallReturned
    /\ Len(get_log) = 3
    /\ fetch_rets[Len(fetch_rets)] = None
    /\ \E i, j \in 1..3 : /\ get_log[i].resp.kind = "RequestException"
                          /\ get_log[j].resp.kind = "response"

\* C7: the candidates of the page parsed last are the elements that are an
\* article element or carry role=article, in document order, and only when
\* there is none, the elements that carry a truthy data-ft attribute.
C7_CandidateLayers ==
    LET pages == SelectSeq(fetch_rets, LAMBDA h : ~NotHtml(h))
        all == Descendants(pages[Len(pages)].val)
        first == SelectSeq(all, LAMBDA e : \/ e.name = "article"
                                           \/ <<"role", "article">> \in e.attrs)
        second == SelectSeq(all, LAMBDA e : HasAttr(e, "data-ft") /\ Attr(e, "data-ft") # "")
    IN  pages # <<>> =>
            last_candidates = IF first # <<>> THEN first ELSE second

\* C8: every record of the result has like_count, comment_count, share_count
\* and video_views_count >= 0, and total_engagement equal to their sum.
C8_Engagement ==
    \A i \in 1..Len(all_posts) :
        LET post == all_posts[i]
        IN  /\ post.like_count >= 0
            /\ post.comment_count >= 0
            /\ post.share_count >= 0
            /\ post.video_views_count >= 0
            /\ post.total_engagement >= 0
            /\ post.total_engagement = post.like_count + post.comment_count
                                       + post.share_count + post.video_views_count

\* A result of several pages with a record whose counters are not all zero.
C8_Witness ==
    /\ Len(fetch_rets) >= 2
    /\ \E i \in 1..Len(all_posts) :
           /\ all_posts[i].video_views_count > 0
           /\ all_posts[i].like_count > 0
    /\ \E i \in 1..Len(all_posts) :
           /\ all_posts[i].comment_count > 0
           /\ all_posts[i].share_count > 0

\* C9: in one _fetch_page call there is one backoff sleep per failed attempt
\* a < max_retries, of backoff_factor * a, taken before attempt a + 1; no
\* sleep follows a 200 or the attempt a = max_retries.
C9_LinearBackoff ==
    /\ Len(sleep_log) =
           Cardinality({i \in 1..Len(get_log) :
                           ~Is200(get_log[i].resp) /\ i < settings.max_retries})
    /\ \A a \in 1..Len(sleep_log) :
           sleep_log[a] = [after |-> a, secs |-> settings.backoff_factor * a]
    /\ pc = "get" => Len(sleep_log) = attempt - 1
    /\ pc = "backoff" => Len(sleep_log) = attempt /\ Len(get_log) = attempt

\* Two failed attempts of three: sleeps of backoff_factor and of twice that.
C9_Witness ==
    /\ settings.max_retries = 3
    /\ Len(get_log) = 3
    /\ Len(sleep_log) = 2
    /\ sleep_log[2].secs = 2 * settings.backoff_factor
    /\ sleep_log[1].secs = settings.backoff_factor

\* C10 (safety): pages are fetched in the order 1, 2, ..., page p + 1 only
\* after page p was fetched and yielded a post, no page beyond max_pages,
\* and never more than max_pages * max_retries GETs.
C10_Safety ==
    /\ fetch_calls = [i \in 1..Len(fetch_calls) |-> i]
    /\ Len(fetch_calls) <= max_pages
    /\ Len(fetch_rets) \in {Len(fetch_calls), Len(fetch_calls) - 1}
    /\ \A p \in 1..(Len(fetch_calls) - 1) : YieldsPosts(fetch_rets[p])
    /\ gets_total <= max_pages * settings.max_retries

\* C10: for every max_pages >= 0, every max_retries >= 0 and every behaviour
\* of the transport, run ends, and C10_Safety holds throughout.
C10_Terminates == []C10_Safety /\ <>(pc = "done")

\* A run that ended after exactly max_pages * max_retries = 9 GETs.
C10_Witness ==
    /\ pc = "done"
    /\ max_pages = 3
    /\ settings.max_retries = 3
    /\ gets_total = 9

\* C6: clean_content(clean_content(x)) = clean_content(x)
C6_Idempotent == Len(cc_out) = 2 => cc_out[2] = cc_out[1]

====
